---- MODULE Spec2Model ----
(***************************************************************************)
(* Model of node-resource-exporter (cmd/node-resource-exporter/main.go and *)
(* pkg/metrics/metrics.go): the run.Group of three actors (signal handler, *)
(* Prometheus HTTP target, resource sampling loop), one sampling pass      *)
(* (reportResourceUsage), the aggregation of container resource lists      *)
(* (addResourceList) and the cumulative occupancy score                    *)
(* (ResourceScore.Score).                                                  *)
(*                                                                         *)
(* float64 values are modelled as exact rationals <<num, den>> in lowest   *)
(* terms; quantities are small integers, for which AsApproximateFloat64 is *)
(* exact.  Strings are sequences of one-character strings.                 *)
(*                                                                         *)
(* Library calls made by main.go behave as their packages document:        *)
(*  - run.Group.Run starts every actor, waits for the first to return,     *)
(*    calls the stop functions one after the other in the order the actors *)
(*    were added, waits for the remaining actors and returns the first     *)
(*    error; run.SignalHandler returns a non-nil SignalError on a signal   *)
(*    and ctx.Err() when its context is cancelled;                         *)
(*  - http.Server.Shutdown(ctx) makes ListenAndServe return                *)
(*    ErrServerClosed and returns when no connection is active or ctx is   *)
(*    done;                                                                *)
(*  - a List call of the cluster client fails when its ctx is cancelled    *)
(*    and can fail at any time;                                            *)
(*  - strings.Split(s, ",") returns the substrings between the commas, one *)
(*    more than there are commas.                                          *)
(***************************************************************************)
EXTENDS Integers, Sequences, FiniteSets, TLC

VARIABLES
    flagR,          \* value of the -r flag (main.go:223)
    mainPc,         \* position of main/mainInternal: "start", "run", "exited"
    exitCode,       \* process exit code, -1 while the process runs
    runPc,          \* position of run.Group.Run
    firstErr,       \* the error Run received first and will return
    sigSt,          \* signal actor: "idle", "waiting", "returned"
    srvSt,          \* serving actor: "idle", "listening", "returned"
    loopPc,         \* sampling actor: "idle", "select", "pass", "exited"
    stopped,        \* actors whose stop (interrupt) function has been invoked
    sigCtxDone,     \* the SignalHandler's child context is cancelled
    ctxDone,        \* the shared ctx of mainInternal is cancelled
    inShutdown,     \* promServer.Shutdown has been called
    inflight,       \* Shutdown has found a scrape in progress that has not completed
    ticks,          \* ticker firings consumed by the sampling loop
    nodeList,       \* nodes of the pass in progress
    reqG,           \* NodeResourceRequests gauge: <<node, resource, label>> -> value
    limG,           \* NodeResourceLimits gauge
    occG,           \* NodeResourceOccupancy gauge
    scoreG,         \* NodeResourceScore gauge: <<resource, label>> -> value
    scores,         \* resourceScores.scores: resource -> [total, count]
    outcome,        \* pass in progress: per visited node, did its pod listing succeed
    obs,            \* the pods listed per node of the pass (main.go:319) and history:
                    \* what the last step of the sampling loop observed
    aggIn,          \* aggregation run: the container resource lists to fold
    aggIn0,         \* aggregation run: the lists as they were given
    aggTotal,       \* aggregation run: the running total
    aggPos,         \* aggregation run: lists folded so far
    scCalls         \* history: the Score calls made so far, <<resource, occ, result>>

vars == <<flagR, mainPc, exitCode, runPc, firstErr, sigSt, srvSt, loopPc, stopped,
          sigCtxDone, ctxDone, inShutdown, inflight, ticks, nodeList, outcome,
          reqG, limG, occG, scoreG, scores, obs, aggIn, aggIn0, aggTotal, aggPos,
          scCalls>>

lifeVars == <<mainPc, exitCode, runPc, firstErr, sigSt, srvSt, stopped,
              sigCtxDone, ctxDone, inShutdown, inflight>>
sinkVars == <<reqG, limG, occG, scoreG, scores, scCalls>>
passVars == <<ticks, nodeList, outcome, obs>>
aggVars == <<aggIn, aggIn0, aggTotal, aggPos>>

(***************************************************************************)
(* Bounds                                                                  *)
(***************************************************************************)
MaxTicks == 2       \* ticker firings explored
MaxMaps == 3        \* resource lists folded in an aggregation run
MaxCalls == 3       \* Score calls in a scoring run

(***************************************************************************)
(* Rationals standing for float64                                          *)
(***************************************************************************)
Abs(x) == IF x < 0 THEN -x ELSE x

RECURSIVE Gcd(_, _)
Gcd(a, b) == IF b = 0 THEN a ELSE Gcd(b, a % b)

Rat(n, d) ==
    LET g == Gcd(Abs(n), Abs(d))
        s == IF d < 0 THEN -1 ELSE 1
    IN  <<(s * n) \div g, (s * d) \div g>>

RatInt(n) == <<n, 1>>
RatAdd(x, y) == Rat(x[1] * y[2] + y[1] * x[2], x[2] * y[2])
RatMul(x, y) == Rat(x[1] * y[1], x[2] * y[2])
RatDiv(x, y) == Rat(x[1] * y[2], x[2] * y[1])

(***************************************************************************)
(* strings.Split(s, ",")                                                   *)
(***************************************************************************)
Comma == ","

RECURSIVE Index(_, _)
\* position of the first comma of s at or after i, 0 if there is none
Index(s, i) ==
    IF i > Len(s) THEN 0
    ELSE IF s[i] = Comma THEN i
    ELSE Index(s, i + 1)

RECURSIVE Split(_)
Split(s) ==
    LET m == Index(s, 1)
    IN  IF m = 0 THEN <<s>>
        ELSE <<SubSeq(s, 1, m - 1)>> \o Split(SubSeq(s, m + 1, Len(s)))

(***************************************************************************)
(* The cluster as the API calls can report it                              *)
(***************************************************************************)
CPU == <<"c">>
MEM == <<"m">>

EmptyList == [r \in {} |-> 0]       \* corev1.ResourceList{}
One(r, q) == [x \in {r} |-> q]
Two(r, q, s, t) == [x \in {r, s} |-> IF x = r THEN q ELSE t]

\* container.Resources of the containers that occur
K1 == [requests |-> One(CPU, 1), limits |-> One(CPU, 2)]
K2 == [requests |-> Two(CPU, 2, MEM, 1), limits |-> One(MEM, 2)]

\* the pod lists a node can report: one running pod; a pending pod and a
\* running pod of two containers
PodLists ==
    { << [phase |-> "Running", containers |-> <<K1>>] >>,
      << [phase |-> "Pending", containers |-> <<K1>>],
         [phase |-> "Running", containers |-> <<K1, K2>>] >> }

\* a node with its name, the value of the configured label and
\* node.Status.Allocatable
Node(n, l, a) == [name |-> n, label |-> l, alloc |-> a]

\* the node lists the cluster can report: no node; a node without an
\* allocatable entry for memory; two nodes, the second with a memory entry
\* of 0
NodeLists ==
    { <<>>,
      << Node("n1", "z", One(CPU, 4)) >>,
      << Node("n1", "z", Two(CPU, 2, MEM, 2)), Node("n2", "z", Two(CPU, 4, MEM, 0)) >> }

\* values of the -r flag
Flags == { <<>>, <<"c", ",", "m">>, <<"c", ",", "c">> }

(***************************************************************************)
(* addResourceList (main.go:374-383)                                       *)
(***************************************************************************)
DeepCopy(q) == q

\* a quantity found in the total is replaced instead of added to
addResourceListReplace(total, addition) ==
    [ r \in DOMAIN total \cup DOMAIN addition |->
        IF r \in DOMAIN addition THEN DeepCopy(addition[r]) ELSE total[r] ]

addResourceList(total, addition) ==
    [ r \in DOMAIN total \cup DOMAIN addition |->
        IF r \in DOMAIN addition
        THEN IF r \in DOMAIN total
             THEN total[r] + addition[r]
             ELSE DeepCopy(addition[r])
        ELSE total[r] ]

(***************************************************************************)
(* ResourceScore.Score (metrics.go:61-72)                                  *)
(***************************************************************************)
NewResourceScore == [r \in {} |-> [total |-> RatInt(0), count |-> 0]]

\* the count is not incremented for a known resource
ScoreEntryStaleCount(s, resource, occ) ==
    IF resource \notin DOMAIN s
    THEN [total |-> occ, count |-> 1]
    ELSE [total |-> RatAdd(s[resource].total, occ), count |-> s[resource].count]

ScoreEntry(s, resource, occ) ==
    IF resource \notin DOMAIN s
    THEN [total |-> occ, count |-> 1]
    ELSE [total |-> RatAdd(s[resource].total, occ), count |-> s[resource].count + 1]

ScoreStore(s, resource, occ) ==
    [ r \in DOMAIN s \cup {resource} |->
        IF r = resource THEN ScoreEntry(s, resource, occ) ELSE s[r] ]

ScoreResult(score) ==
    RatDiv(RatMul(RatInt(100), score.total), RatInt(score.count))

Score(s, resource, occ) == ScoreResult(ScoreStore(s, resource, occ)[resource])

(***************************************************************************)
(* One node of reportResourceUsage (main.go:313-371)                       *)
(***************************************************************************)
GaugeSet(g, labels, v) == [k \in DOMAIN g \cup {labels} |-> IF k = labels THEN v ELSE g[k]]

\* a pending pod is counted as well
IsRunningOrPending(pod) == pod.phase \in {"Running", "Pending"}

\* main.go:329-331: pod.Status.Phase != corev1.PodRunning is skipped
IsRunning(pod) == pod.phase = "Running"

\* only the first container of a pod is counted
SumContainersFirstOnly(total, cs, field) ==
    IF cs = <<>> THEN total
    ELSE addResourceList(total, IF field = "requests"
                                THEN Head(cs).requests
                                ELSE Head(cs).limits)

RECURSIVE SumContainers(_, _, _)
\* main.go:332-335: fold the containers of one pod into total
SumContainers(total, cs, field) ==
    IF cs = <<>> THEN total
    ELSE SumContainers(addResourceList(total, IF field = "requests"
                                              THEN Head(cs).requests
                                              ELSE Head(cs).limits),
                       Tail(cs), field)

RECURSIVE SumPods(_, _, _)
\* main.go:328-336: fold the running pods into total
SumPods(total, pods, field) ==
    IF pods = <<>> THEN total
    ELSE SumPods(IF IsRunning(Head(pods))
                 THEN SumContainers(total, Head(pods).containers, field)
                 ELSE total,
                 Tail(pods), field)

ValueOf(list, resource) == IF resource \in DOMAIN list THEN list[resource] ELSE 0

HasAllocatable(node, resource) ==
    resource \in DOMAIN node.alloc /\ node.alloc[resource] > 0

Occupancy(val, allocatable) == RatDiv(RatInt(val), RatInt(allocatable))

\* the percentage is capped at 100
OccupancyPercentClamped(occ) ==
    IF occ[1] > occ[2] THEN RatInt(100) ELSE RatMul(occ, RatInt(100))

OccupancyPercent(occ) == RatMul(occ, RatInt(100))

Labels(node, resource) == <<node.name, resource, node.label>>
ScoreLabels(node, resource) == <<resource, node.label>>

\* the occupancy gauge is reset when the node has no allocatable quantity
EmitGapClears(S, node, resource) ==
    [S EXCEPT !.occ = GaugeSet(@, Labels(node, resource), RatInt(0))]

\* main.go:353-362: nothing is done when allocatable is absent or not positive
EmitGap(S, node, resource) == S

\* main.go:343-369: the body of the loop over the tracked resources
EmitResource(S, node, resource, requests, limits) ==
    LET val == ValueOf(requests, resource)
        S1 == [S EXCEPT !.req = GaugeSet(@, Labels(node, resource), RatInt(val)),
                        !.wrote = @ \cup {<<"req", Labels(node, resource)>>,
                                          <<"lim", Labels(node, resource)>>}]
        occ == Occupancy(val, node.alloc[resource])
        S2 == IF HasAllocatable(node, resource)
              THEN [S1 EXCEPT
                      !.scores = ScoreStore(@, resource, occ),
                      !.occ = GaugeSet(@, Labels(node, resource), OccupancyPercent(occ)),
                      !.score = GaugeSet(@, ScoreLabels(node, resource),
                                         Score(S.scores, resource, occ)),
                      !.scored = Append(@, <<resource, occ>>),
                      !.wrote = @ \cup {<<"occ", Labels(node, resource)>>,
                                        <<"score", ScoreLabels(node, resource)>>,
                                        <<"Score", <<node.name, resource>>>>}]
              ELSE EmitGap(S1, node, resource)
    IN  [S2 EXCEPT !.lim = GaugeSet(@, Labels(node, resource),
                                    RatInt(ValueOf(limits, resource)))]

RECURSIVE EmitResources(_, _, _, _, _)
\* main.go:342: for _, resource := range resources
EmitResources(S, node, resources, requests, limits) ==
    IF resources = <<>> THEN S
    ELSE EmitResources(EmitResource(S, node, Head(resources), requests, limits),
                       node, Tail(resources), requests, limits)

\* main.go:325-371: a node whose pods were listed
ReportNode(S, node, pods, resources) ==
    EmitResources(S, node, resources,
                  SumPods(EmptyList, pods, "requests"),
                  SumPods(EmptyList, pods, "limits"))

(***************************************************************************)
(* Initial state: the process has parsed its flags (main.go:221-227)       *)
(***************************************************************************)
\* nothing observed: no step made, no pods listed, no gauge written or Score
\* called in the pass, no Score call in the visit, no failed listing before,
\* and the occupancy and score gauges as the pass found them
NoObs == [kind |-> "none", pods |-> <<>>, wrote |-> {}, scored |-> <<>>,
          failed |-> FALSE, before |-> <<>>]

InitProcess ==
    /\ mainPc = "start"
    /\ exitCode = -1
    /\ runPc = "idle"
    /\ firstErr = "none"
    /\ sigSt = "idle"
    /\ srvSt = "idle"
    /\ loopPc = "idle"
    /\ stopped = {}
    /\ sigCtxDone = FALSE
    /\ ctxDone = FALSE
    /\ inShutdown = FALSE
    /\ inflight = FALSE
    /\ ticks = 0
    /\ nodeList = <<>>
    /\ outcome = <<>>
    /\ reqG = <<>>
    /\ limG = <<>>
    /\ occG = <<>>
    /\ scoreG = <<>>
    /\ scores = NewResourceScore
    /\ obs = NoObs
    /\ scCalls = <<>>

InitNoAgg ==
    /\ aggIn = <<>>
    /\ aggIn0 = <<>>
    /\ aggTotal = EmptyList
    /\ aggPos = 0

Init ==
    /\ flagR \in Flags
    /\ InitProcess
    /\ InitNoAgg

(***************************************************************************)
(* main and mainInternal (main.go:221-288)                                 *)
(***************************************************************************)
\* main.go:229-232: the exit code for the error mainInternal returns
ExitCodeOf(err) == IF err # "nil" THEN 1 ELSE 0

\* main.go:236-244: InClusterConfig or NewForConfig fails
StartupFail ==
    /\ mainPc = "start"
    /\ mainPc' = "exited"
    /\ exitCode' = ExitCodeOf("config")
    /\ UNCHANGED <<flagR, runPc, firstErr, sigSt, srvSt, loopPc, stopped, sigCtxDone,
                   ctxDone, inShutdown, inflight>>
    /\ UNCHANGED <<passVars, sinkVars, aggVars>>

\* main.go:246-287: the group is built and g.Run starts the three actors
StartGroup ==
    /\ mainPc = "start"
    /\ mainPc' = "run"
    /\ runPc' = "wait_first"
    /\ sigSt' = "waiting"
    /\ srvSt' = "listening"
    /\ loopPc' = "select"
    /\ UNCHANGED <<flagR, exitCode, firstErr, stopped, sigCtxDone, ctxDone, inShutdown,
                   inflight>>
    /\ UNCHANGED <<passVars, sinkVars, aggVars>>

\* an actor's execute returns err: Run receives the errors in the order sent
Report(err) == firstErr' = IF firstErr = "none" THEN err ELSE firstErr

\* main.go:261: the signal actor receives SIGINT or SIGTERM
SignalArrives ==
    /\ sigSt = "waiting"
    /\ sigSt' = "returned"
    /\ Report("signal")
    /\ UNCHANGED <<flagR, mainPc, exitCode, runPc, srvSt, loopPc, stopped, sigCtxDone,
                   ctxDone, inShutdown, inflight>>
    /\ UNCHANGED <<passVars, sinkVars, aggVars>>

\* main.go:261: the signal actor sees its context cancelled
SignalCancelled ==
    /\ sigSt = "waiting"
    /\ sigCtxDone
    /\ sigSt' = "returned"
    /\ Report("canceled")
    /\ UNCHANGED <<flagR, mainPc, exitCode, runPc, srvSt, loopPc, stopped, sigCtxDone,
                   ctxDone, inShutdown, inflight>>
    /\ UNCHANGED <<passVars, sinkVars, aggVars>>

\* main.go:266: ListenAndServe fails (the port cannot be bound, accept fails)
ListenFails ==
    /\ srvSt = "listening"
    /\ ~inShutdown
    /\ srvSt' = "returned"
    /\ Report("listen")
    /\ UNCHANGED <<flagR, mainPc, exitCode, runPc, sigSt, loopPc, stopped, sigCtxDone,
                   ctxDone, inShutdown, inflight>>
    /\ UNCHANGED <<passVars, sinkVars, aggVars>>

\* main.go:266: ListenAndServe returns ErrServerClosed once Shutdown was called
ListenClosed ==
    /\ srvSt = "listening"
    /\ inShutdown
    /\ srvSt' = "returned"
    /\ Report("closed")
    /\ UNCHANGED <<flagR, mainPc, exitCode, runPc, sigSt, loopPc, stopped, sigCtxDone,
                   ctxDone, inShutdown, inflight>>
    /\ UNCHANGED <<passVars, sinkVars, aggVars>>

\* main.go:250: the scrape of /metrics that was in progress when Shutdown was
\* called completes
RequestEnds ==
    /\ inflight
    /\ inflight' = FALSE
    /\ UNCHANGED <<flagR, mainPc, exitCode, runPc, firstErr, sigSt, srvSt, loopPc,
                   stopped, sigCtxDone, ctxDone, inShutdown>>
    /\ UNCHANGED <<passVars, sinkVars, aggVars>>

\* main.go:287, 261, 268-270: Run has received the first actor's error and
\* invokes the stop functions in the order the actors were added: the signal
\* actor's cancels its context, the serving actor's calls Shutdown(ctx), which
\* finds a scrape in progress or none
RunStops ==
    /\ runPc = "wait_first"
    /\ firstErr # "none"
    /\ sigCtxDone' = TRUE
    /\ inShutdown' = TRUE
    /\ inflight' \in BOOLEAN
    /\ stopped' = stopped \cup {"signal", "serving"}
    /\ runPc' = "shutdown"
    /\ UNCHANGED <<flagR, mainPc, exitCode, firstErr, sigSt, srvSt, loopPc, ctxDone>>
    /\ UNCHANGED <<passVars, sinkVars, aggVars>>

\* main.go:270: Shutdown(ctx) returns when no connection is active or ctx is done
ShutdownMayReturn == ~inflight \/ ctxDone

\* main.go:270-274, 281-285: Shutdown returns, the serving actor's stop function
\* returns, and the sampling actor's stop function calls cancel()
StopSampling ==
    /\ runPc = "shutdown"
    /\ ShutdownMayReturn
    /\ ctxDone' = TRUE
    /\ stopped' = stopped \cup {"sampling"}
    /\ runPc' = "wait_all"
    /\ UNCHANGED <<flagR, mainPc, exitCode, firstErr, sigSt, srvSt, loopPc, sigCtxDone,
                   inShutdown, inflight>>
    /\ UNCHANGED <<passVars, sinkVars, aggVars>>

\* the actors whose start function has not returned
Running == {a \in {"signal"} : sigSt # "returned"}
           \cup {a \in {"serving"} : srvSt # "returned"}
           \cup {a \in {"sampling"} : loopPc # "exited"}

\* Run stops waiting while one actor is still running
AllReturnedButOne == Cardinality(Running) <= 1

\* main.go:287: Run has received the error of every actor
AllReturned == Running = {}

\* main.go:287: g.Run returns the first error
RunReturns ==
    /\ runPc = "wait_all"
    /\ AllReturned
    /\ runPc' = "returned"
    /\ UNCHANGED <<flagR, mainPc, exitCode, firstErr, sigSt, srvSt, loopPc, stopped,
                   sigCtxDone, ctxDone, inShutdown, inflight>>
    /\ UNCHANGED <<passVars, sinkVars, aggVars>>

\* main.go:257, 287, 229-232: mainInternal returns Run's error, main exits
MainExits ==
    /\ mainPc = "run"
    /\ runPc = "returned"
    /\ mainPc' = "exited"
    /\ exitCode' = ExitCodeOf(firstErr)
    /\ UNCHANGED <<flagR, runPc, firstErr, sigSt, srvSt, loopPc, stopped, inShutdown,
                   inflight, sigCtxDone, ctxDone>>
    /\ UNCHANGED <<passVars, sinkVars, aggVars>>

(***************************************************************************)
(* startResourceSamplingLoop and reportResourceUsage (main.go:290-372)     *)
(***************************************************************************)
\* main.go:279: strings.Split(resources, ",")
Resources == Split(flagR)

\* the node listing's error ends the sampling loop
AfterListErrorExit == "exited"

\* main.go:307-311: where the loop is after the node listing failed
AfterListError == "select"

\* the pass is abandoned when a node's pod listing fails
AfterPodsErrorReturn(list, i) == Len(list) + 1

\* main.go:319-323: the index of the next node after node i's pod listing failed
AfterPodsError(list, i) == i + 1

\* main.go:297, 307-311: the ticker fires and the node listing fails
TickListFails ==
    /\ loopPc = "select"
    /\ ticks < MaxTicks
    /\ ticks' = ticks + 1
    /\ loopPc' = AfterListError
    /\ obs' = [NoObs EXCEPT !.kind = "listfail"]
    /\ UNCHANGED <<flagR, lifeVars, sinkVars, aggVars, nodeList, outcome>>

\* main.go:297, 307, 313: the ticker fires and the nodes are listed
TickListsNodes ==
    /\ loopPc = "select"
    /\ ticks < MaxTicks
    /\ ~ctxDone
    /\ nodeList' \in NodeLists
    /\ loopPc' = "pass"
    /\ ticks' = ticks + 1
    /\ obs' = [NoObs EXCEPT !.kind = "listok", !.failed = (obs.kind = "listfail"),
                            !.before = [occ |-> occG, score |-> scoreG, scores |-> scores]]
    /\ UNCHANGED <<flagR, lifeVars, sinkVars, aggVars, outcome>>

\* main.go:319-323: the pod listing of the next node fails
VisitPodsFail ==
    /\ loopPc = "pass"
    /\ Len(outcome) < Len(nodeList)
    /\ obs.kind # "podslisted"
    /\ LET i == Len(outcome) + 1
           next == AfterPodsError(nodeList, i)
       IN  outcome' = outcome \o [k \in 1..(next - i) |-> IF k = 1 THEN "fail" ELSE "skip"]
    /\ obs' = [obs EXCEPT !.kind = "podsfail", !.pods = Append(@, <<>>), !.scored = <<>>]
    /\ UNCHANGED <<flagR, lifeVars, sinkVars, aggVars, ticks, nodeList, loopPc>>

\* main.go:319: the pods of the next node are listed; the call fails once ctx
\* is cancelled
ListPods ==
    /\ loopPc = "pass"
    /\ Len(outcome) < Len(nodeList)
    /\ obs.kind # "podslisted"
    /\ ~ctxDone
    /\ \E pods \in PodLists :
        obs' = [obs EXCEPT !.kind = "podslisted", !.pods = Append(@, pods)]
    /\ UNCHANGED <<flagR, lifeVars, sinkVars, aggVars, ticks, nodeList, loopPc, outcome>>

\* main.go:325-371: the listed pods are summed and the node's gauges set; ctx
\* is not consulted
VisitNode ==
    /\ loopPc = "pass"
    /\ obs.kind = "podslisted"
    /\ LET i == Len(outcome) + 1
           pods == obs.pods[i]
           S == ReportNode([req |-> reqG, lim |-> limG, occ |-> occG, score |-> scoreG,
                            scores |-> scores, wrote |-> obs.wrote, scored |-> <<>>],
                            nodeList[i], pods, Resources)
       IN  /\ reqG' = S.req
           /\ limG' = S.lim
           /\ occG' = S.occ
           /\ scoreG' = S.score
           /\ scores' = S.scores
           /\ obs' = [obs EXCEPT !.kind = "podsok", !.wrote = S.wrote,
                                 !.scored = S.scored]
           /\ outcome' = Append(outcome, "ok")
    /\ UNCHANGED <<flagR, lifeVars, aggVars, ticks, nodeList, loopPc, scCalls>>

\* main.go:313, 372, 298: the node loop is over, reportResourceUsage returns
PassReturns ==
    /\ loopPc = "pass"
    /\ Len(outcome) >= Len(nodeList)
    /\ loopPc' = "select"
    /\ nodeList' = <<>>
    /\ outcome' = <<>>
    /\ obs' = NoObs
    /\ UNCHANGED <<flagR, lifeVars, sinkVars, aggVars, ticks>>

\* main.go:300-301: the loop sees ctx.Done and returns ctx.Err()
LoopExits ==
    /\ loopPc = "select"
    /\ ctxDone
    /\ loopPc' = "exited"
    /\ Report("canceled")
    /\ UNCHANGED <<flagR, mainPc, exitCode, runPc, sigSt, srvSt, stopped, sigCtxDone,
                   ctxDone, inShutdown, inflight>>
    /\ UNCHANGED <<passVars, sinkVars, aggVars>>

Next ==
    \/ StartupFail
    \/ StartGroup
    \/ SignalArrives
    \/ SignalCancelled
    \/ ListenFails
    \/ ListenClosed
    \/ RequestEnds
    \/ RunStops
    \/ StopSampling
    \/ RunReturns
    \/ MainExits
    \/ TickListFails
    \/ TickListsNodes
    \/ VisitPodsFail
    \/ ListPods
    \/ VisitNode
    \/ PassReturns
    \/ LoopExits

Spec == Init /\ [][Next]_vars

\* main.go:319-325: the loop holds the pods of a node and has not yet set the
\* node's gauges; this is the enabling condition of VisitNode
EmitPending == loopPc = "pass" /\ obs.kind = "podslisted"

\* The steps the program takes by itself once they are possible: the Go
\* scheduler runs every runnable goroutine, a List call returns, and a select
\* with ctx.Done ready takes that case after finitely many ticks.  Signals,
\* listener failures, ticks and the completion of a scrape by its client are
\* up to the environment and are not forced.  The condition on EmitPending
\* is WF_vars(VisitNode) written with the action's enabling condition: a
\* VisitNode step is possible exactly when EmitPending holds and ends it.
Fairness ==
    /\ WF_vars(StartupFail \/ StartGroup)
    /\ WF_vars(SignalCancelled)
    /\ WF_vars(ListenClosed)
    /\ WF_vars(RunStops)
    /\ WF_vars(StopSampling)
    /\ WF_vars(RunReturns)
    /\ WF_vars(MainExits)
    /\ WF_vars(VisitPodsFail \/ ListPods)
    /\ []<>~EmitPending
    /\ WF_vars(PassReturns)
    /\ WF_vars(LoopExits)

FairSpec == Spec /\ Fairness

(***************************************************************************)
(* Aggregation runs: addResourceList folded over given resource lists      *)
(***************************************************************************)
\* every resource list over cpu and memory with quantities 1 and 2
ResourceLists ==
    UNION { [D -> {1, 2}] : D \in SUBSET {CPU, MEM} }

RECURSIVE SeqsUpTo(_, _)
SeqsUpTo(S, n) ==
    IF n = 0 THEN {<<>>}
    ELSE LET shorter == SeqsUpTo(S, n - 1)
         IN  shorter \cup {Append(q, x) : q \in shorter, x \in S}

InitAgg ==
    /\ flagR = <<>>
    /\ InitProcess
    /\ aggIn \in SeqsUpTo(ResourceLists, MaxMaps)
    /\ aggIn0 = aggIn
    /\ aggTotal = EmptyList
    /\ aggPos = 0

\* main.go:333: addResourceList(requests, container.Resources.Requests)
AggStep ==
    /\ aggPos < Len(aggIn)
    /\ aggTotal' = addResourceList(aggTotal, aggIn[aggPos + 1])
    /\ aggPos' = aggPos + 1
    /\ UNCHANGED <<flagR, lifeVars, passVars, sinkVars, loopPc, aggIn, aggIn0>>

NextAgg == AggStep

SpecAgg == InitAgg /\ [][NextAgg]_vars

(***************************************************************************)
(* Scoring runs: sequences of ResourceScore.Score calls                    *)
(***************************************************************************)
OccValues == {Rat(0, 1), Rat(1, 4), Rat(1, 2), Rat(9, 10)}

InitScore ==
    /\ flagR = <<>>
    /\ InitProcess
    /\ InitNoAgg

\* main.go:356: score := resourceScores.Score(resource, occ)
ScoreCall ==
    /\ Len(scCalls) < MaxCalls
    /\ \E resource \in {CPU, MEM}, occ \in OccValues :
        /\ scores' = ScoreStore(scores, resource, occ)
        /\ scCalls' = Append(scCalls, <<resource, occ, Score(scores, resource, occ)>>)
    /\ UNCHANGED <<flagR, lifeVars, passVars, aggVars, loopPc, reqG, limG, occG, scoreG>>

NextScore == ScoreCall

SpecScore == InitScore /\ [][NextScore]_vars

(***************************************************************************)
(* Properties                                                              *)
(***************************************************************************)
Actors == {"signal", "serving", "sampling"}

\* C1: when the termination signal is the first thing that ends an actor (it
\* arrives while the three actors run), the process, once it has exited, has
\* stopped the listener and the sampling loop and has exit code 0.
C1_SignalShutdownExitsZero ==
    (mainPc = "exited" /\ firstErr = "signal")
        => (srvSt = "returned" /\ loopPc = "exited" /\ exitCode = 0)

Tracked == {Resources[k] : k \in 1..Len(Resources)}

\* the gauge writes and Score calls of the pass in progress that are made for
\* the node named n
WritesFor(n) == {w \in obs.wrote : w[1] # "score" /\ w[2][1] = n}

\* the writes a pass owes to a node whose pods were listed
WritesOwed(node) ==
    UNION { {<<"req", Labels(node, r)>>, <<"lim", Labels(node, r)>>}
            \cup (IF r \in DOMAIN node.alloc /\ node.alloc[r] > 0
                  THEN {<<"occ", Labels(node, r)>>, <<"score", ScoreLabels(node, r)>>,
                        <<"Score", <<node.name, r>>>>}
                  ELSE {}) : r \in Tracked }

\* C3: in a pass, every node that the node loop has gone past and whose pod
\* listing did not fail has had its request and limit gauges set (and its
\* occupancy and score gauges where allocatable > 0) in that pass, whether it
\* comes before or after a failing node; a node whose listing failed has had
\* no gauge written and no Score call made for it in that pass.
C3_NodeFailureIsolated ==
    loopPc = "pass" =>
        \A i \in 1..Len(outcome) :
            /\ outcome[i] # "fail" =>
                 /\ WritesOwed(nodeList[i]) \subseteq obs.wrote
                 /\ \A r \in Tracked :
                      /\ Labels(nodeList[i], r) \in DOMAIN reqG
                      /\ Labels(nodeList[i], r) \in DOMAIN limG
            /\ outcome[i] = "fail" => WritesFor(nodeList[i].name) = {}

\* C3 witness: the first node's listing failed, the second node's succeeded
\* and its cpu gauges were written in the same pass.
C3_Witness ==
    /\ loopPc = "pass"
    /\ outcome = <<"fail", "ok">>
    /\ CPU \in Tracked
    /\ <<"req", Labels(nodeList[2], CPU)>> \in obs.wrote
    /\ <<"occ", Labels(nodeList[2], CPU)>> \in obs.wrote

\* C4: the step in which a tick's node listing fails changes no gauge and no
\* ScoreState and leaves the sampling loop at its select; from there, while
\* cancellation has not been requested (and ticks remain to be explored), the
\* next tick can list the nodes and run a pass.
C4_ListFailureSkipsPass ==
    /\ [][(ticks' = ticks + 1 /\ obs'.kind = "listfail")
            => (/\ UNCHANGED <<reqG, limG, occG, scoreG, scores>>
                /\ loopPc' = "select")]_vars
    /\ []((obs.kind = "listfail" /\ ~ctxDone /\ ticks < MaxTicks)
            => ENABLED TickListsNodes)

\* C4 witness: the tick after a failed node listing runs a pass that sets
\* the gauges of a node.
C4_Witness ==
    /\ obs.failed
    /\ loopPc = "pass"
    /\ outcome # <<>>
    /\ outcome[1] = "ok"
    /\ CPU \in Tracked
    /\ <<"req", Labels(nodeList[1], CPU)>> \in obs.wrote

\* the calls among the first k Score calls that were made for resource r
CallsFor(r, k) == {j \in 1..k : scCalls[j][1] = r}

RECURSIVE SumOcc(_)
\* the sum of the occupancy fractions passed by the calls in J
SumOcc(J) ==
    IF J = {} THEN RatInt(0)
    ELSE LET j == CHOOSE x \in J : TRUE
         IN  RatAdd(scCalls[j][2], SumOcc(J \ {j}))

\* C5: the k-th Score call returns 100 times the arithmetic mean of the
\* occupancy fractions passed so far for its resource name, calls for other
\* names not counting; the first call for a name returns 100 times its
\* fraction; Score(cpu, 0.5) then Score(cpu, 0.9) return 50 then 70.
C5_ScoreIsCumulativeMean ==
    /\ \A k \in 1..Len(scCalls) :
        LET J == CallsFor(scCalls[k][1], k)
        IN  /\ scCalls[k][3] =
                 RatDiv(RatMul(RatInt(100), SumOcc(J)), RatInt(Cardinality(J)))
            /\ Cardinality(J) = 1 => scCalls[k][3] = RatMul(RatInt(100), scCalls[k][2])
    /\ (/\ Len(scCalls) >= 2
        /\ scCalls[1][1] = CPU /\ scCalls[1][2] = Rat(1, 2)
        /\ scCalls[2][1] = CPU /\ scCalls[2][2] = Rat(9, 10))
         => (scCalls[1][3] = RatInt(50) /\ scCalls[2][3] = RatInt(70))

\* C5 witness: Score(cpu, 0.5), a call for memory, then Score(cpu, 0.9)
\* returning 70.
C5_Witness ==
    /\ Len(scCalls) = 3
    /\ scCalls[1] = <<CPU, Rat(1, 2), RatInt(50)>>
    /\ scCalls[2][1] = MEM
    /\ scCalls[3] = <<CPU, Rat(9, 10), RatInt(70)>>

RECURSIVE SumQuantity(_, _)
\* the sum of resource r's quantities over the given lists numbered in J
SumQuantity(J, r) ==
    IF J = {} THEN 0
    ELSE LET j == CHOOSE x \in J : TRUE
         IN  aggIn0[j][r] + SumQuantity(J \ {j}, r)

\* C6: after folding the first aggPos given resource lists into an empty
\* total, the total holds exactly the resource names that occur in those
\* lists, each with the sum of its quantities over them, and the given lists
\* are as they were given.
C6_AggregateIsSum ==
    LET names == UNION {DOMAIN aggIn0[j] : j \in 1..aggPos}
    IN  /\ DOMAIN aggTotal = names
        /\ \A r \in names :
             aggTotal[r] = SumQuantity({j \in 1..aggPos : r \in DOMAIN aggIn0[j]}, r)
        /\ aggIn = aggIn0

\* C6 witness: three lists folded, cpu in all of them summing to 5, memory
\* in none of them and absent from the total.
C6_Witness ==
    /\ aggPos = 3
    /\ \A j \in 1..3 : DOMAIN aggIn0[j] = {CPU}
    /\ DOMAIN aggTotal = {CPU}
    /\ aggTotal[CPU] = 5

\* the node loop has gone past node i of the pass and listed its pods
Visited(i) == i \in 1..Len(outcome) /\ outcome[i] = "ok"

\* allocatable for r is absent from the node or not positive
Gap(node, r) == ~(r \in DOMAIN node.alloc /\ node.alloc[r] > 0)

\* C7: for a visited node and a tracked resource with request total r (the
\* value of the request gauge) and allocatable a, no occupancy is written
\* when a is absent or a <= 0, and otherwise the occupancy gauge is exactly
\* 100*r/a, unclamped, and is 100 times the fraction passed to Score in the
\* same step.
C7_OccupancyOfRequest ==
    loopPc = "pass" =>
        \A i \in 1..Len(outcome) : \A r \in Tracked :
            LET node == nodeList[i]
                key == Labels(node, r)
            IN  Visited(i) =>
                  IF Gap(node, r)
                  THEN <<"occ", key>> \notin obs.wrote
                  ELSE /\ <<"occ", key>> \in obs.wrote
                       /\ occG[key] = RatDiv(RatMul(RatInt(100), reqG[key]),
                                             RatInt(node.alloc[r]))
                       /\ i = Len(outcome) =>
                            /\ \E k \in 1..Len(obs.scored) : obs.scored[k][1] = r
                            /\ \A k \in 1..Len(obs.scored) :
                                 obs.scored[k][1] = r =>
                                   occG[key] = RatMul(RatInt(100), obs.scored[k][2])

\* C7 witness: requests of 3 cpu on a node with 2 allocatable give an
\* occupancy of 150.
C7_Witness ==
    /\ loopPc = "pass"
    /\ Visited(1)
    /\ CPU \in Tracked
    /\ nodeList[1].alloc[CPU] = 2
    /\ reqG[Labels(nodeList[1], CPU)] = RatInt(3)
    /\ occG[Labels(nodeList[1], CPU)] = RatInt(150)

\* the containers of the running pods of a pod list, as <<pod, container>>
\* index pairs, that have resource r in the given field
Contributors(pods, field, r) ==
    { pc \in UNION { {<<p, c>> : c \in 1..Len(pods[p].containers)} : p \in 1..Len(pods) } :
        /\ pods[pc[1]].phase = "Running"
        /\ r \in DOMAIN (IF field = "requests"
                         THEN pods[pc[1]].containers[pc[2]].requests
                         ELSE pods[pc[1]].containers[pc[2]].limits) }

RECURSIVE SumOver(_, _, _, _)
SumOver(P, pods, field, r) ==
    IF P = {} THEN 0
    ELSE LET pc == CHOOSE x \in P : TRUE
             k == pods[pc[1]].containers[pc[2]]
         IN  (IF field = "requests" THEN k.requests[r] ELSE k.limits[r])
             + SumOver(P \ {pc}, pods, field, r)

\* the sum of resource r over the running workloads of a pod list
TotalOf(pods, field, r) == SumOver(Contributors(pods, field, r), pods, field, r)

\* C8: in a pass, for every visited node and tracked resource the request
\* gauge is the sum of the resource's requests over the node's running
\* workloads (0 if none), the limit gauge the sum of the limits, and where
\* allocatable > 0 the occupancy gauge is 100 * request total / allocatable
\* and, right after the node's visit, the score gauge is the cumulative
\* mean; allocatable cpu 4 with one running workload requesting 1 and
\* limited to 2 gives 1, 2, 25 and, while every observation was 0.25, 25.
C8_PassResult ==
    loopPc = "pass" =>
        \A i \in 1..Len(outcome) : \A r \in Tracked :
            LET node == nodeList[i]
                key == Labels(node, r)
                req == TotalOf(obs.pods[i], "requests", r)
                lim == TotalOf(obs.pods[i], "limits", r)
            IN  Visited(i) =>
                  /\ reqG[key] = RatInt(req)
                  /\ limG[key] = RatInt(lim)
                  /\ ~Gap(node, r) =>
                       /\ occG[key] = Rat(100 * req, node.alloc[r])
                       /\ i = Len(outcome) =>
                            scoreG[ScoreLabels(node, r)] =
                                RatDiv(RatMul(RatInt(100), scores[r].total),
                                       RatInt(scores[r].count))
                  /\ (/\ r = CPU
                      /\ node.alloc = One(CPU, 4)
                      /\ obs.pods[i] = << [phase |-> "Running", containers |-> <<K1>>] >>)
                       => /\ reqG[key] = RatInt(1)
                          /\ limG[key] = RatInt(2)
                          /\ occG[key] = RatInt(25)
                          /\ (i = Len(outcome)
                              /\ scores[CPU].total = Rat(scores[CPU].count, 4))
                               => scoreG[ScoreLabels(node, r)] = RatInt(25)

\* C8 witness: the second of two identical ticks over node n1 with 4
\* allocatable cpu and one running workload requesting 1 and limited to 2:
\* the gauges read 1, 2, 25 and 25.
C8_Witness ==
    /\ loopPc = "pass"
    /\ ticks = 2
    /\ nodeList = << Node("n1", "z", One(CPU, 4)) >>
    /\ Visited(1)
    /\ obs.pods[1] = << [phase |-> "Running", containers |-> <<K1>>] >>
    /\ CPU \in Tracked
    /\ scores[CPU] = [total |-> Rat(1, 2), count |-> 2]
    /\ reqG[<<"n1", CPU, "z">>] = RatInt(1)
    /\ limG[<<"n1", CPU, "z">>] = RatInt(2)
    /\ occG[<<"n1", CPU, "z">>] = RatInt(25)
    /\ scoreG[<<CPU, "z">>] = RatInt(25)

\* C9: when the -r flag is empty or unset no resource is tracked: the list
\* handed to the sampling loop is empty, no pass writes an entry of the
\* request, limit, occupancy or score gauge, and no ScoreState is created.
C9_EmptyFlagTracksNothing ==
    flagR = <<>> =>
        /\ obs.kind = "podsok" => Resources = <<>>
        /\ DOMAIN reqG = {}
        /\ DOMAIN limG = {}
        /\ DOMAIN occG = {}
        /\ DOMAIN scoreG = {}
        /\ DOMAIN scores = {}

\* the entry of gauge g at key k: its value, or nothing when it was never set
Entry(g, k) == IF k \in DOMAIN g THEN <<g[k]>> ELSE <<>>

\* a step that visits a node whose pods are listed
VisitStep == outcome' = Append(outcome, "ok")

\* what the visit of a node does for a tracked resource whose allocatable
\* entry is absent or <= 0: the occupancy entry of the node and the score
\* entry of the resource keep their values over the visit, the resource's
\* ScoreState is unchanged, and the request and limit gauges are written
GapVisit ==
    VisitStep =>
        \A r \in Tracked :
            LET node == nodeList[Len(outcome) + 1]
            IN  Gap(node, r) =>
                  /\ Entry(occG', Labels(node, r)) = Entry(occG, Labels(node, r))
                  /\ Entry(scoreG', ScoreLabels(node, r)) = Entry(scoreG, ScoreLabels(node, r))
                  /\ Entry(scores', r) = Entry(scores, r)
                  /\ <<"occ", Labels(node, r)>> \notin (obs'.wrote \ obs.wrote)
                  /\ {<<"req", Labels(node, r)>>, <<"lim", Labels(node, r)>>}
                        \subseteq obs'.wrote
                  /\ Labels(node, r) \in DOMAIN reqG'
                  /\ Labels(node, r) \in DOMAIN limG'

\* in a pass, the occupancy and score entries of a visited node's resource
\* without allocatable hold the values they had before the pass
GapKeepsPassValues ==
    loopPc = "pass" =>
        \A i \in 1..Len(outcome) : \A r \in Tracked :
            (Visited(i) /\ Gap(nodeList[i], r)) =>
                /\ Entry(occG, Labels(nodeList[i], r))
                     = Entry(obs.before.occ, Labels(nodeList[i], r))
                /\ Entry(scoreG, ScoreLabels(nodeList[i], r))
                     = Entry(obs.before.score, ScoreLabels(nodeList[i], r))

\* in a pass, the occupancy entry of a visited node's resource without
\* allocatable holds the value it had before the pass
GapKeepsOccupancy ==
    loopPc = "pass" =>
        \A i \in 1..Len(outcome) : \A r \in Tracked :
            (Visited(i) /\ Gap(nodeList[i], r)) =>
                Entry(occG, Labels(nodeList[i], r))
                    = Entry(obs.before.occ, Labels(nodeList[i], r))

\* C10 as stated: for a (node, tracked resource) whose allocatable entry is
\* absent or <= 0, the occupancy entry and the score entry are not written
\* and keep the values they had before the pass, the ScoreState is not
\* changed by the node visit, and the request and limit gauges are written.
C10_GapKeepsValuesOfPass == []GapKeepsPassValues /\ [][GapVisit]_vars

\* C10 as amended: for a (node, tracked resource) whose allocatable entry is
\* absent or <= 0, the node's visit writes neither the occupancy entry nor
\* the score entry nor the ScoreState and does write the request and limit
\* gauges; the occupancy entry keeps the value it had before the pass, the
\* score entry the value it had before the visit.
C10_GapKeepsValuesOfVisit == []GapKeepsOccupancy /\ [][GapVisit]_vars

\* C10 witness: a node that had a memory occupancy from an earlier pass is
\* visited without allocatable memory: the entry is still there, unwritten,
\* while the memory request gauge was written.
C10_Witness ==
    /\ loopPc = "pass"
    /\ Visited(1)
    /\ MEM \in Tracked
    /\ Gap(nodeList[1], MEM)
    /\ Labels(nodeList[1], MEM) \in DOMAIN occG
    /\ ScoreLabels(nodeList[1], MEM) \in DOMAIN scoreG
    /\ <<"occ", Labels(nodeList[1], MEM)>> \notin obs.wrote
    /\ <<"req", Labels(nodeList[1], MEM)>> \in obs.wrote

\* observationCount of resource name r in the ScoreStates s, 0 when r has none
CountOf(s, r) == IF r \in DOMAIN s THEN s[r].count ELSE 0

\* in the visit of a node, no two Score calls are made for the same resource
\* name
ScoreOncePerNode ==
    loopPc = "pass" =>
        \A j, k \in 1..Len(obs.scored) :
            obs.scored[j][1] = obs.scored[k][1] => j = k

\* the pass in progress has increased no observationCount by more than the
\* number of its nodes
PassCountBounded ==
    loopPc = "pass" =>
        \A r \in DOMAIN scores :
            CountOf(scores, r) - CountOf(obs.before.scores, r) <= Len(nodeList)

\* every ScoreState that exists has observationCount >= 1
CountPositive == \A r \in DOMAIN scores : scores[r].count >= 1

\* no step removes a ScoreState or lowers its observationCount
CountNeverResets ==
    \A r \in DOMAIN scores : r \in DOMAIN scores' /\ scores'[r].count >= scores[r].count

\* C11: in a pass, for every -r flag and node list, Score is called at most
\* once per (resource name, node), so the pass increases the observationCount
\* of a resource name by at most the number of its nodes; observationCount is
\* >= 1 once the ScoreState exists and is never lowered or reset.
C11_ScoreOncePerNodeAndPass ==
    /\ [](ScoreOncePerNode /\ PassCountBounded /\ CountPositive)
    /\ [][CountNeverResets]_vars

\* workloads that are not in the running phase
IdlePods ==
    { [phase |-> ph, containers |-> cs] :
        ph \in {"Pending", "Succeeded", "Failed", "Unknown"},
        cs \in {<<K2, K1>>} }

\* the pod lists got from pods by adding a workload that is not running, or
\* by removing or altering one of its workloads that is not running
IdleVariants(pods) ==
    LET idle == {k \in 1..Len(pods) : pods[k].phase # "Running"}
    IN  { SubSeq(pods, 1, k) \o <<p>> \o SubSeq(pods, k + 1, Len(pods)) :
            k \in 0..Len(pods), p \in IdlePods }
        \cup { SubSeq(pods, 1, k - 1) \o SubSeq(pods, k + 1, Len(pods)) : k \in idle }
        \cup { [pods EXCEPT ![k] = p] : k \in idle, p \in IdlePods }

\* C12: for the node a pass has just visited and every tracked resource, the
\* request and limit gauges, the occupancy gauge and the fraction passed to
\* Score are the ones the visit would have produced had the node's pod list
\* had a workload that is not running added, removed or altered.
C12_OnlyRunningContribute ==
    (loopPc = "pass" /\ obs.kind = "podsok") =>
        LET i == Len(outcome)
            node == nodeList[i]
            tracked == Tracked
        IN  \A v \in IdleVariants(obs.pods[i]) :
              LET requests == SumPods(EmptyList, v, "requests")
                  limits == SumPods(EmptyList, v, "limits")
              IN  \A r \in tracked :
                LET req == ValueOf(requests, r)
                    lim == ValueOf(limits, r)
                    key == Labels(node, r)
                IN  /\ reqG[key] = RatInt(req)
                    /\ limG[key] = RatInt(lim)
                    /\ ~Gap(node, r) =>
                         /\ occG[key] = Rat(100 * req, node.alloc[r])
                         /\ \A k \in 1..Len(obs.scored) :
                              obs.scored[k][1] = r =>
                                obs.scored[k][2] = Rat(req, node.alloc[r])

\* C12 witness: a node with 4 allocatable cpu was visited with a pending
\* workload requesting 1 cpu and a running one requesting 3: the request
\* gauge is 3, the limit gauge 2 and the occupancy 75.
C12_Witness ==
    /\ loopPc = "pass"
    /\ obs.kind = "podsok"
    /\ CPU \in Tracked
    /\ obs.pods[Len(outcome)][1].phase = "Pending"
    /\ nodeList[Len(outcome)].alloc = One(CPU, 4)
    /\ reqG[Labels(nodeList[Len(outcome)], CPU)] = RatInt(3)
    /\ limG[Labels(nodeList[Len(outcome)], CPU)] = RatInt(2)
    /\ occG[Labels(nodeList[Len(outcome)], CPU)] = RatInt(75)
    /\ obs.scored # <<>>
    /\ obs.scored[1] = <<CPU, Rat(3, 4)>>

\* C13: once the serving actor's stop function has been invoked it
\* eventually returns, even when a scrape in progress never completes, so
\* the sampling actor's stop function is eventually invoked and the sampling
\* loop eventually exits.
C13_ServingStopBounded ==
    ("serving" \in stopped) ~> ("sampling" \in stopped /\ loopPc = "exited")

\* the sampling actor's stop function has called cancel() and returned
StopReturned == "sampling" \in stopped

\* the step in which the sampling actor's stop function returns leaves no
\* pass in progress: a pass that was running has ended
StopWaitsForTick == (~StopReturned /\ StopReturned') => loopPc' # "pass"

\* once the stop function has returned, no node listing succeeds any more,
\* so no pass over nodes begins
NoPassAfterStop == StopReturned => ~(loopPc = "select" /\ loopPc' = "pass")

\* once the stop function has returned, no gauge and no ScoreState is
\* written
NoWriteAfterStop == StopReturned => UNCHANGED <<reqG, limG, occG, scoreG, scores>>

\* C14: the sampling actor's stop function cancels the loop's context and
\* does not return while a tick's pass is still in progress; after it has
\* returned the sampling loop starts no further pass and writes no further
\* gauge or ScoreState.
C14_SamplingStopWaitsForTick ==
    /\ [](StopReturned => ctxDone)
    /\ [][StopWaitsForTick]_vars
    /\ [][NoPassAfterStop]_vars
    /\ [][NoWriteAfterStop]_vars

====
